---- MODULE Spec2Model ----
(***************************************************************************)
(* Model of the backend service manager of src/tauri/src/lib.rs:           *)
(* BackendManager (a mutex-protected Vec<Child>), the background launch    *)
(* thread of start_services, stop_services, the three Tauri commands and   *)
(* the setup / window-event hooks of run().                                *)
(*                                                                         *)
(* A Child handle is the pair <<t, name>>: the process `name` spawned by   *)
(* the launch thread of the t-th call of start_services.                   *)
(***************************************************************************)
EXTENDS Integers, Sequences, FiniteSets, TLC

\* ---------------------------------------------------------------- bounds
MaxStarts == 2      \* calls of start_services over the run
MaxStops  == 2      \* calls of stop_services over the run
MaxExits  == 1      \* processes that exit on their own over the run
MaxChecks == 1      \* calls of check_service_health over the run

Threads  == 1..MaxStarts
Stoppers == 1..MaxStops
Names    == {"embedding", "gemini", "perl"}
Handles  == Threads \X Names

VARIABLES
    processes,   \* BackendManager.processes: the Vec<Child> behind the mutex
    mutex,       \* owner of the mutex: <<"free",0>>, <<"launch",t>>, <<"stop",s>>
    pc,          \* pc[t]: position of the t-th launch thread
    res,         \* res[t][name]: outcome of the spawn of `name` in thread t
    setupDone,   \* the setup hook of run() has run
    returned,    \* returned[t]: what that call of start_services returned
    log,         \* log[t]: what thread t did so far, in order: its spawn
                 \* attempts, its sleeps and its emit_to calls
    alive,       \* OS processes that are running
    reaped,      \* handles on which kill and wait were called
    exits,       \* number of processes that exited on their own
    spc,         \* spc[s]: position of the s-th call of stop_services
    draining,    \* draining[s]: handles the drain(..) of call s still holds
    inflight,    \* inflight[s]: launch threads in flight when call s locked
    health,      \* last reply of check_service_health
    checks       \* calls of check_service_health so far

vars == <<processes, mutex, pc, res, setupDone, returned, log, alive,
          reaped, exits, spc, draining, inflight, health, checks>>

Free == <<"free", 0>>

\* A launch thread that exists and has not finished its closure.
InFlight(t) == pc[t] \notin {"unborn", "done"}

Started(t) == pc[t] # "unborn"

SeqToSet(s) == {s[i] : i \in 1..Len(s)}

\* BackendManager::new
Init ==
    /\ processes = <<>>
    /\ mutex = Free
    /\ pc = [t \in Threads |-> "unborn"]
    /\ res = [t \in Threads |-> [n \in Names |-> "none"]]
    /\ setupDone = FALSE
    /\ returned = [t \in Threads |-> "none"]
    /\ log = [t \in Threads |-> <<>>]
    /\ alive = {}
    /\ reaped = {}
    /\ exits = 0
    /\ spc = [s \in Stoppers |-> "idle"]
    /\ draining = [s \in Stoppers |-> <<>>]
    /\ inflight = [s \in Stoppers |-> {}]
    /\ health = "none"
    /\ checks = 0

\* ------------------------------------------------------- start_services
\* The next unused thread index: calls are numbered in the order they occur.
NextThread(t) == pc[t] = "unborn" /\ \A u \in Threads : u < t => Started(u)

\* A start_services that joins its thread: it has not returned while the
\* launch sequence runs.
MutStart_Blocking(t) ==
    /\ NextThread(t)
    /\ pc' = [pc EXCEPT ![t] = "spawn_embedding"]
    /\ UNCHANGED <<processes, mutex, res, returned, log, alive, reaped, exits,
                   spc, draining, inflight, health, checks>>

\* BackendManager::start_services: clone the Arc, spawn the thread, Ok(()).
start_services(t) ==
    /\ NextThread(t)
    /\ pc' = [pc EXCEPT ![t] = "spawn_embedding"]
    /\ returned' = [returned EXCEPT ![t] = "Ok"]
    /\ UNCHANGED <<processes, mutex, res, log, alive, reaped, exits,
                   spc, draining, inflight, health, checks>>

\* run(): the setup hook auto-starts the services; it runs once.  lib.rs does
\* not order the hook and the commands (the runtime does), so neither waits
\* for the other here.
SetupAutoStart(t) ==
    /\ ~setupDone
    /\ setupDone' = TRUE
    /\ start_services(t)

\* #[tauri::command] start_backend_services
StartCommand(t) ==
    /\ start_services(t)
    /\ UNCHANGED setupDone

\* Reply of start_backend_services, from what start_services returned.
StartReply(r) ==
    IF r = "Ok" THEN "Backend services starting..." ELSE r

\* ------------------------------------------------- the launch thread
\* Command::spawn: the OS either creates the process or reports an error.
SpawnOutcomes == {"ok", "err"}

\* A launch thread that tries the Python group again after a failed spawn.
MutAfterPython_Retry(outcome) ==
    IF outcome = "err" THEN "spawn_embedding" ELSE "sleep3"

\* A launch thread that starts the Perl group without the 3 s delay.
MutAfterPython_NoSettle(outcome) == "spawn_perl"

\* Where the closure continues after start_python_services returned:
\* `if let Err(e)` only prints, then the thread sleeps.
AfterPython(outcome) == "sleep3"

\* A launch thread that emits without the settle delay of the Perl group.
MutAfterPerl_NoSettle(outcome) == "emit"

\* A launch thread that ends without the event when the Perl spawn failed.
MutAfterPerl_SilentOnErr(outcome) ==
    IF outcome = "err" THEN "done" ELSE "sleep2"

\* Where the closure continues after start_perl_service returned.
AfterPerl(outcome) == "sleep2"

\* start_python_services, first spawn()? (embedding service).
SpawnEmbedding(t) ==
    /\ pc[t] = "spawn_embedding"
    /\ \E o \in SpawnOutcomes :
        /\ res' = [res EXCEPT ![t]["embedding"] = o]
        /\ log' = [log EXCEPT ![t] = Append(@, <<"embedding", o>>)]
        /\ IF o = "ok"
           THEN /\ alive' = alive \cup {<<t, "embedding">>}
                /\ pc' = [pc EXCEPT ![t] = "spawn_gemini"]
           ELSE /\ alive' = alive
                /\ pc' = [pc EXCEPT ![t] = AfterPython("err")]
    /\ UNCHANGED <<processes, mutex, setupDone, returned, reaped, exits,
                   spc, draining, inflight, health, checks>>

\* start_python_services, second spawn()? (Gemini service).  On Err the `?`
\* returns at once: the embedding Child is dropped, which neither kills nor
\* waits for the process, and nothing is pushed.
SpawnGemini(t) ==
    /\ pc[t] = "spawn_gemini"
    /\ \E o \in SpawnOutcomes :
        /\ res' = [res EXCEPT ![t]["gemini"] = o]
        /\ log' = [log EXCEPT ![t] = Append(@, <<"gemini", o>>)]
        /\ IF o = "ok"
           THEN /\ alive' = alive \cup {<<t, "gemini">>}
                /\ pc' = [pc EXCEPT ![t] = "py_push"]
           ELSE /\ alive' = alive
                /\ pc' = [pc EXCEPT ![t] = AfterPython("err")]
    /\ UNCHANGED <<processes, mutex, setupDone, returned, reaped, exits,
                   spc, draining, inflight, health, checks>>

\* The two push calls of start_python_services.
PushPython(procs, t) ==
    Append(Append(procs, <<t, "embedding">>), <<t, "gemini">>)

\* A start_python_services that locks once per push: the embedding handle is
\* pushed under one guard, the Gemini handle under a second one.
MutPyPush_TwoLocks(t) ==
    /\ pc[t] = "py_push"
    /\ mutex = Free
    /\ IF <<t, "embedding">> \in
              SeqToSet(processes) \cup reaped
                  \cup UNION {SeqToSet(draining[s]) : s \in Stoppers}
       THEN /\ processes' = Append(processes, <<t, "gemini">>)
            /\ pc' = [pc EXCEPT ![t] = "sleep3"]
       ELSE /\ processes' = Append(processes, <<t, "embedding">>)
            /\ pc' = pc
    /\ UNCHANGED <<mutex, res, setupDone, returned, log, alive, reaped, exits,
                   spc, draining, inflight, health, checks>>

\* A start_python_services that pushes without taking the mutex.
MutPyPush_NoLock(t) ==
    /\ pc[t] = "py_push"
    /\ processes' = Append(Append(processes, <<t, "embedding">>),
                           <<t, "gemini">>)
    /\ pc' = [pc EXCEPT ![t] = "sleep3"]
    /\ UNCHANGED <<mutex, res, setupDone, returned, log, alive, reaped, exits,
                   spc, draining, inflight, health, checks>>

\* start_python_services: processes.lock(), push both handles, drop the
\* guard, Ok(()).  The lock is taken when no one holds the mutex.
PyPush(t) ==
    /\ pc[t] = "py_push"
    /\ mutex = Free
    /\ processes' = PushPython(processes, t)
    /\ mutex' = mutex
    /\ pc' = [pc EXCEPT ![t] = AfterPython("ok")]
    /\ UNCHANGED <<res, setupDone, returned, log, alive, reaped, exits,
                   spc, draining, inflight, health, checks>>

\* thread::sleep(Duration::from_secs(3))
Sleep3(t) ==
    /\ pc[t] = "sleep3"
    /\ pc' = [pc EXCEPT ![t] = "spawn_perl"]
    /\ log' = [log EXCEPT ![t] = Append(@, <<"sleep", "3s">>)]
    /\ UNCHANGED <<processes, mutex, res, setupDone, returned, alive,
                   reaped, exits, spc, draining, inflight, health, checks>>

\* A launch thread that rolls the table back when the Perl spawn fails.
MutOnPerlErr_Rollback(procs) == <<>>

\* The Vec after `spawn()?` of start_perl_service returned Err: the function
\* returns before it locks, the closure only prints the error.
OnPerlErr(procs) == procs

\* start_perl_service: spawn()? of the Perl API server.
SpawnPerl(t) ==
    /\ pc[t] = "spawn_perl"
    /\ \E o \in SpawnOutcomes :
        /\ res' = [res EXCEPT ![t]["perl"] = o]
        /\ log' = [log EXCEPT ![t] = Append(@, <<"perl", o>>)]
        /\ IF o = "ok"
           THEN /\ alive' = alive \cup {<<t, "perl">>}
                /\ processes' = processes
                /\ pc' = [pc EXCEPT ![t] = "perl_push"]
           ELSE /\ alive' = alive
                /\ processes' = OnPerlErr(processes)
                /\ pc' = [pc EXCEPT ![t] = AfterPerl("err")]
    /\ UNCHANGED <<mutex, setupDone, returned, reaped, exits, spc, draining,
                   inflight, health, checks>>

\* The push call of start_perl_service.
PushPerl(procs, t) == Append(procs, <<t, "perl">>)

\* start_perl_service: processes.lock(), push the handle, drop the guard,
\* Ok(()).
PerlPush(t) ==
    /\ pc[t] = "perl_push"
    /\ mutex = Free
    /\ processes' = PushPerl(processes, t)
    /\ mutex' = mutex
    /\ pc' = [pc EXCEPT ![t] = AfterPerl("ok")]
    /\ UNCHANGED <<res, setupDone, returned, log, alive, reaped, exits,
                   spc, draining, inflight, health, checks>>

\* thread::sleep(Duration::from_secs(2))
Sleep2(t) ==
    /\ pc[t] = "sleep2"
    /\ pc' = [pc EXCEPT ![t] = "emit"]
    /\ log' = [log EXCEPT ![t] = Append(@, <<"sleep", "2s">>)]
    /\ UNCHANGED <<processes, mutex, res, setupDone, returned, alive,
                   reaped, exits, spc, draining, inflight, health, checks>>

\* app_handle.emit_to("main", "backend-ready", ()); the result is discarded
\* and the closure ends.
EmitReady(t) ==
    /\ pc[t] = "emit"
    /\ log' = [log EXCEPT ![t] = Append(@, <<"emit", "backend-ready">>)]
    /\ pc' = [pc EXCEPT ![t] = "done"]
    /\ UNCHANGED <<processes, mutex, res, setupDone, returned, alive, reaped,
                   exits, spc, draining, inflight, health, checks>>

\* -------------------------------------------------------- stop_services
NextStopper(s) == spc[s] = "idle" /\ \A u \in Stoppers : u < s => spc[u] # "idle"

\* What drain(..) leaves in the Vec while the guard is held.
Drained(procs) == <<>>

\* A stop_services that reports a failure when it finds the table empty.
MutStop_FailOnEmpty(s) ==
    /\ NextStopper(s)
    /\ mutex = Free
    /\ IF processes = <<>>
       THEN /\ spc' = [spc EXCEPT ![s] = "failed"]
            /\ UNCHANGED <<mutex, draining, processes>>
       ELSE /\ mutex' = <<"stop", s>>
            /\ draining' = [draining EXCEPT ![s] = processes]
            /\ processes' = <<>>
            /\ spc' = [spc EXCEPT ![s] = "draining"]
    /\ inflight' = [inflight EXCEPT ![s] = {t \in Threads : InFlight(t)}]
    /\ UNCHANGED <<pc, res, setupDone, returned, log, alive, reaped, exits,
                   health, checks>>

\* BackendManager::stop_services: processes.lock(), processes.drain(..)
stop_services(s) ==
    /\ NextStopper(s)
    /\ mutex = Free
    /\ mutex' = <<"stop", s>>
    /\ draining' = [draining EXCEPT ![s] = processes]
    /\ processes' = Drained(processes)
    /\ spc' = [spc EXCEPT ![s] = "draining"]
    /\ inflight' = [inflight EXCEPT ![s] = {t \in Threads : InFlight(t)}]
    /\ UNCHANGED <<pc, res, setupDone, returned, log, alive, reaped, exits,
                   health, checks>>

\* #[tauri::command] stop_backend_services
StopCommand(s) == stop_services(s)

\* run(): on_window_event, WindowEvent::CloseRequested
CloseRequested(s) == stop_services(s)

\* A drain loop that stops after its first handle: the rest is dropped.
MutStopKill_FirstOnly(s) ==
    /\ spc[s] = "draining"
    /\ draining[s] # <<>>
    /\ LET h == Head(draining[s]) IN
        /\ alive' = alive \ {h}
        /\ reaped' = reaped \cup {h}
    /\ draining' = [draining EXCEPT ![s] = <<>>]
    /\ UNCHANGED <<processes, mutex, pc, res, setupDone, returned, log,
                   exits, spc, inflight, health, checks>>

\* One iteration of the drain loop: process.kill(), process.wait(); both
\* results are discarded.  kill fails on a process that already exited.
StopKill(s) ==
    /\ spc[s] = "draining"
    /\ draining[s] # <<>>
    /\ LET h == Head(draining[s]) IN
        /\ alive' = alive \ {h}
        /\ reaped' = reaped \cup {h}
    /\ draining' = [draining EXCEPT ![s] = Tail(@)]
    /\ UNCHANGED <<processes, mutex, pc, res, setupDone, returned, log,
                   exits, spc, inflight, health, checks>>

\* The drain loop is over: the guard is dropped and stop_services returns.
StopReturn(s) ==
    /\ spc[s] = "draining"
    /\ draining[s] = <<>>
    /\ mutex = <<"stop", s>>
    /\ mutex' = Free
    /\ spc' = [spc EXCEPT ![s] = "done"]
    /\ UNCHANGED <<processes, pc, res, setupDone, returned, log, alive,
                   reaped, exits, draining, inflight, health, checks>>

\* Reply of stop_backend_services.
StopReply == "Backend services stopped"

\* -------------------------------------------------- check_service_health
\* The body of check_service_health.
HealthReply == "Services running"

\* #[tauri::command] check_service_health
CheckHealth ==
    /\ checks < MaxChecks
    /\ checks' = checks + 1
    /\ health' = HealthReply
    /\ UNCHANGED <<processes, mutex, pc, res, setupDone, returned, log,
                   alive, reaped, exits, spc, draining, inflight>>

\* ------------------------------------------------------- the environment
\* A spawned process exits on its own (crash or normal end).
ProcExit(h) ==
    /\ h \in alive
    /\ exits < MaxExits
    /\ alive' = alive \ {h}
    /\ exits' = exits + 1
    /\ UNCHANGED <<processes, mutex, pc, res, setupDone, returned, log,
                   reaped, spc, draining, inflight, health, checks>>

Next ==
    \/ \E t \in Threads : SetupAutoStart(t)
    \/ \E t \in Threads : StartCommand(t)
    \/ \E t \in Threads : SpawnEmbedding(t)
    \/ \E t \in Threads : SpawnGemini(t)
    \/ \E t \in Threads : PyPush(t)
    \/ \E t \in Threads : Sleep3(t)
    \/ \E t \in Threads : SpawnPerl(t)
    \/ \E t \in Threads : PerlPush(t)
    \/ \E t \in Threads : Sleep2(t)
    \/ \E t \in Threads : EmitReady(t)
    \/ \E s \in Stoppers : StopCommand(s)
    \/ \E s \in Stoppers : CloseRequested(s)
    \/ \E s \in Stoppers : StopKill(s)
    \/ \E s \in Stoppers : StopReturn(s)
    \/ CheckHealth
    \/ \E h \in Handles : ProcExit(h)

Spec == Init /\ [][Next]_vars

TypeOK ==
    /\ SeqToSet(processes) \subseteq Handles
    /\ alive \subseteq Handles
    /\ reaped \subseteq Handles

\* ------------------------------------------------ observations of a state
\* Handles the supervisor still tracks: in the Vec, or held by a running drain.
Tracked == SeqToSet(processes) \cup UNION {SeqToSet(draining[s]) : s \in Stoppers}

\* Positions in log[t] of the events of kind k.
EventsAt(t, k) == {i \in 1..Len(log[t]) : log[t][i][1] = k}

\* Number of "backend-ready" events thread t emitted.
Emitted(t) == Cardinality(EventsAt(t, "emit"))

\* Thread t attempted a spawn and it failed.
SpawnFailed(t) == \E n \in Names : res[t][n] = "err"

\* Every process of a launch sequence was spawned successfully.
AllSpawned(t) == \A n \in Names : res[t][n] = "ok"

\* No call of stop_services is inside its drain loop.
NoStopRunning == \A s \in Stoppers : spc[s] # "draining"

\* ------------------------------------------------------------------ C1
\* C1: a Start immediately followed by a Stop issued before readiness leaves,
\* once the Stop and the launch sequence have both finished, no process
\* spawned by the manager alive.  Stated for a single Start whose launch was
\* in flight when the Stop took the table and in which no spawn failed.
C1_StartStopLeavesNothingAlive ==
    \A s \in Stoppers :
        ( /\ spc[s] = "done"
          /\ inflight[s] = {1}
          /\ pc[1] = "done"
          /\ ~SpawnFailed(1)
          /\ \A t \in Threads : t # 1 => ~Started(t)
          /\ NoStopRunning )
        => alive = {}

\* ------------------------------------------------------------------ C2
\* C2: once a Stop has cleared the table, no handle of a launch sequence that
\* was in flight at that moment is in the table again.
C2_NoRegistrationAfterStop ==
    \A s \in Stoppers :
        spc[s] # "idle" =>
            \A h \in SeqToSet(processes) : h[1] \notin inflight[s]

\* ------------------------------------------------------------------ C3
\* C3: a Start issued while an earlier launch sequence is still in flight
\* does not return success and spawns nothing, so two launch sequences never
\* run at the same time.
C3_SecondStartRejected ==
    \A t1, t2 \in Threads :
        (t1 < t2 /\ InFlight(t1) /\ Started(t2)) =>
            /\ returned[t2] # "Ok"
            /\ ~InFlight(t2)
            /\ \A n \in Names : res[t2][n] = "none"

\* ------------------------------------------------------------------ C4
\* C4: in a launch sequence in which every spawn succeeds, "backend-ready"
\* is emitted exactly once, and the emission comes right after the 2 s settle
\* delay that follows the spawn of the Perl API service.
C4_ReadyOnceAfterLastSettle ==
    \A t \in Threads :
        AllSpawned(t) =>
            /\ Emitted(t) <= 1
            /\ pc[t] = "done" => Emitted(t) = 1
            /\ \A i \in EventsAt(t, "emit") :
                /\ i > 2
                /\ log[t][i - 1] = <<"sleep", "2s">>
                /\ log[t][i - 2] = <<"perl", "ok">>

\* A launch sequence with three successful spawns has finished and emitted.
C4_Witness ==
    \E t \in Threads : AllSpawned(t) /\ pc[t] = "done" /\ Emitted(t) = 1

\* ------------------------------------------------------------------ C5
\* C5: a health check made before any Start does not report Running.
C5_HealthBeforeStartNotRunning ==
    (checks > 0 /\ \A t \in Threads : ~Started(t))
        => health # "Services running"

\* ------------------------------------------------------------------ C6
\* C6: a health check made after a Start reports Running only if a launch
\* sequence has completed, no Stop is running and every tracked handle's
\* process is alive.
C6_RunningOnlyWhenAllAlive ==
    [][ ( /\ checks' > checks
          /\ \E t \in Threads : Started(t)
          /\ health' = "Services running" )
        => ( /\ \E t \in Threads : pc[t] = "done"
             /\ NoStopRunning
             /\ Tracked \subseteq alive ) ]_vars

\* ------------------------------------------------------------------ C7
\* C7: when the Gemini spawn fails after the embedding spawn succeeded, the
\* embedding handle is registered: it is in the table, or a Stop has taken
\* it from the table and killed it.
C7_PartialGroupRegistered ==
    \A t \in Threads :
        (res[t]["embedding"] = "ok" /\ res[t]["gemini"] = "err")
            => <<t, "embedding">> \in Tracked \cup reaped

\* ------------------------------------------------------------------ C8
\* C8: the step in which the Perl spawn fails changes neither the table nor
\* any process: the Python handles that are in the table stay in it, alive
\* and neither killed nor waited for.
C8_PerlFailureKeepsPython ==
    [][ \A t \in Threads :
          (res[t]["perl"] = "none" /\ res'[t]["perl"] = "err")
              => /\ processes' = processes
                 /\ alive' = alive
                 /\ reaped' = reaped ]_vars

\* The Perl spawn failed and both Python handles are in the table, alive.
C8_Witness ==
    \E t \in Threads :
        /\ res[t]["perl"] = "err"
        /\ {<<t, "embedding">>, <<t, "gemini">>} \subseteq SeqToSet(processes)
        /\ {<<t, "embedding">>, <<t, "gemini">>} \subseteq alive

\* ------------------------------------------------------------------ C9
\* C9: a launch sequence attempts each process at most once, and after its
\* Python group it always goes on to the Perl group: the Perl spawn is
\* attempted right after the 3 s delay, also when a Python spawn failed.
C9_NoRetryAndProceed ==
    \A t \in Threads :
        /\ \A n \in Names : Cardinality(EventsAt(t, n)) <= 1
        /\ pc[t] \in {"perl_push", "sleep2", "emit", "done"}
               => EventsAt(t, "perl") # {}
        /\ \A i \in EventsAt(t, "perl") :
               i > 1 /\ log[t][i - 1] = <<"sleep", "3s">>

\* A Python spawn failed and the Perl spawn was attempted all the same.
C9_Witness ==
    \E t \in Threads :
        /\ res[t]["embedding"] = "err" \/ res[t]["gemini"] = "err"
        /\ res[t]["perl"] # "none"

\* ------------------------------------------------------------------ C10
\* C10: a launch sequence in which a spawn failed was not reported as a
\* success to the caller of Start.
C10_SpawnFailureReported ==
    \A t \in Threads :
        SpawnFailed(t) =>
            /\ returned[t] # "Ok"
            /\ StartReply(returned[t]) # "Backend services starting..."

\* ----------------------------------------------- further observations
\* Processes thread t spawned successfully.
SpawnedOk(t) == {<<t, n>> : n \in {m \in Names : res[t][m] = "ok"}}

\* Handles thread t has pushed to the Vec so far.
PushedBy(t) ==
    (IF /\ res[t]["embedding"] = "ok"
        /\ res[t]["gemini"] = "ok"
        /\ pc[t] \notin {"unborn", "spawn_embedding", "spawn_gemini", "py_push"}
     THEN {<<t, "embedding">>, <<t, "gemini">>} ELSE {})
    \cup
    (IF res[t]["perl"] = "ok" /\ pc[t] \in {"sleep2", "emit", "done"}
     THEN {<<t, "perl">>} ELSE {})

\* Every handle that was ever registered in the Vec.
Pushed == UNION {PushedBy(t) : t \in Threads}

\* No process was ever started: no spawn has succeeded.
NoProcessStarted == \A t \in Threads : SpawnedOk(t) = {}

\* ------------------------------------------------------------------ C11
\* C11: as long as no process was ever started, a call of stop_services is
\* a no-op: it never ends in an error, it finds nothing to drain, kills and
\* waits for nothing, and the table is empty with no process running.
C11_StopOnEmptyIsNoOp ==
    NoProcessStarted =>
        /\ \A s \in Stoppers :
              /\ spc[s] \in {"idle", "draining", "done"}
              /\ draining[s] = <<>>
        /\ processes = <<>>
        /\ reaped = {}
        /\ alive = {}

\* A Stop has returned although no process was ever started.
C11_Witness ==
    NoProcessStarted /\ \E s \in Stoppers : spc[s] = "done"

\* ------------------------------------------------------------------ C12
\* C12: when a call of stop_services that began with no launch sequence in
\* flight returns, it returns normally, the table is empty, and every handle
\* that was ever pushed has been killed and waited for and its process is
\* not running, whether or not the process had already exited by itself.
C12_StopClearsAndReaps ==
    [][ \A s \in Stoppers :
          (spc[s] = "draining" /\ spc'[s] # "draining" /\ inflight[s] = {})
              => /\ spc'[s] = "done"
                 /\ processes' = <<>>
                 /\ Pushed \subseteq reaped'
                 /\ reaped' \cap alive' = {} ]_vars

\* A Stop that began after a complete launch has returned: the three
\* processes were pushed and reaped, one of them had exited by itself.
C12_Witness ==
    \E s \in Stoppers : \E t \in Threads :
        /\ spc[s] = "done"
        /\ inflight[s] = {}
        /\ AllSpawned(t)
        /\ SpawnedOk(t) \subseteq reaped
        /\ exits > 0
        /\ processes = <<>>

\* ------------------------------------------------------------------ C13
\* C13: a first launch spawned its three processes and finished, one Stop
\* ran with no launch in flight and reaped them, then a second launch ran to
\* its end and registered at least one handle.  Then the table holds exactly
\* the handles of the processes the second launch spawned, each once, and
\* the second launch has emitted "backend-ready".
C13_RestartTracksSecondLaunch ==
    ( /\ pc[1] = "done"
      /\ pc[2] = "done"
      /\ spc[1] = "done"
      /\ \A s \in Stoppers : s # 1 => spc[s] = "idle"
      /\ inflight[1] = {}
      /\ AllSpawned(1)
      /\ PushedBy(1) \subseteq reaped
      /\ PushedBy(2) # {}
      /\ PushedBy(2) \cap reaped = {} )
    => /\ SeqToSet(processes) = SpawnedOk(2)
       /\ Len(processes) = Cardinality(SpawnedOk(2))
       /\ Emitted(2) = 1

\* Handles thread t holds in local variables of start_python_services or
\* start_perl_service: spawned, and pushed when the function goes on.
HeldBy(t) ==
    CASE pc[t] = "spawn_gemini" -> {<<t, "embedding">>}
      [] pc[t] = "py_push"      -> {<<t, "embedding">>, <<t, "gemini">>}
      [] pc[t] = "perl_push"    -> {<<t, "perl">>}
      [] OTHER                  -> {}

\* ------------------------------------------------------------------ C14
\* C14: a handle is out of the supervisor's tracking only if kill and wait
\* were called on it, and then it is out: every spawned process's handle is
\* held by its launch thread for the push, or is in the table (or in a
\* running drain), or was killed and waited for; and no handle that was
\* killed and waited for is still tracked.
C14_NoHandleDroppedUnreaped ==
    /\ \A t \in Threads :
          SpawnedOk(t) \subseteq HeldBy(t) \cup Tracked \cup reaped
    /\ Tracked \cap reaped = {}

\* A sequence holds no element twice.
NoDuplicates(q) == \A i, j \in 1..Len(q) : q[i] = q[j] => i = j

\* ------------------------------------------------------------------ C15
\* C15: the table is only touched under the mutex: while a Stop drains it
\* holds the mutex and the Vec stays empty (pushes wait).  No registered
\* handle is lost: each is in the table, in a running drain, or killed and
\* waited for.  No handle is terminated twice: no handle is in the table or
\* in a drain twice, in two drains, or tracked after it was reaped.
C15_MutexKeepsHandles ==
    /\ \A s \in Stoppers :
          spc[s] = "draining" => (mutex = <<"stop", s>> /\ processes = <<>>)
    /\ (mutex = Free) = NoStopRunning
    /\ Pushed \subseteq Tracked \cup reaped
    /\ Tracked \cap reaped = {}
    /\ NoDuplicates(processes)
    /\ \A s \in Stoppers :
          /\ NoDuplicates(draining[s])
          /\ SeqToSet(draining[s]) \cap SeqToSet(processes) = {}
          /\ \A u \in Stoppers :
                u # s => SeqToSet(draining[s]) \cap SeqToSet(draining[u]) = {}

\* A second Stop is draining handles while a launch thread waits for the
\* mutex with handles to push, after a first Stop terminated other handles.
C15_Witness ==
    /\ spc[1] = "done"
    /\ spc[2] = "draining"
    /\ draining[2] # <<>>
    /\ reaped # {}
    /\ \E t \in Threads : pc[t] \in {"py_push", "perl_push"}

\* ------------------------------------------------------------------ C16
\* C16: in every launch sequence the Perl spawn comes right after the 3 s
\* delay, and that delay after the end of the Python group (its first spawn
\* failed, or both were attempted; two successful ones are pushed by then);
\* the emission comes after the 2 s delay, which comes after the Perl spawn.
C16_GroupsInOrder ==
    \A t \in Threads :
        /\ \A i \in EventsAt(t, "perl") :
              /\ i > 2
              /\ log[t][i - 1] = <<"sleep", "3s">>
              /\ \A j \in EventsAt(t, "embedding") \cup EventsAt(t, "gemini") :
                    j < i - 1
              /\ res[t]["embedding"] = "err" \/ res[t]["gemini"] # "none"
              /\ (res[t]["embedding"] = "ok" /\ res[t]["gemini"] = "ok")
                    => {<<t, "embedding">>, <<t, "gemini">>} \subseteq PushedBy(t)
        /\ \A i \in EventsAt(t, "gemini") :
              i > 1 /\ log[t][i - 1] = <<"embedding", "ok">>
        /\ \A i \in EventsAt(t, "emit") :
              \E j \in 1..(i - 1) :
                  /\ log[t][j] = <<"sleep", "2s">>
                  /\ \E k \in 1..(j - 1) : log[t][k][1] = "perl"

\* A launch sequence attempted both Python spawns and the Perl spawn and
\* has emitted.
C16_Witness ==
    \E t \in Threads :
        /\ res[t]["gemini"] # "none"
        /\ res[t]["perl"] # "none"
        /\ Emitted(t) = 1

\* ------------------------------------------------------------------ C17
\* C17: start_services has returned Ok to its caller at every position of
\* the launch thread it spawned, from before the first spawn on; it has
\* returned nothing for a thread that does not exist.
C17_StartReturnsAtOnce ==
    \A t \in Threads :
        /\ Started(t) => returned[t] = "Ok"
        /\ ~Started(t) => returned[t] = "none"

\* The caller of Start went on to a Stop, which has returned, while the
\* launch thread has not yet attempted its first spawn.
C17_Witness ==
    \E t \in Threads : \E s \in Stoppers :
        /\ pc[t] = "spawn_embedding"
        /\ returned[t] = "Ok"
        /\ t \in inflight[s]
        /\ spc[s] = "done"

\* ------------------------------------------------- scheduling assumptions
\* A step of launch thread t.
ThreadStep(t) ==
    \/ SpawnEmbedding(t)
    \/ SpawnGemini(t)
    \/ PyPush(t)
    \/ Sleep3(t)
    \/ SpawnPerl(t)
    \/ PerlPush(t)
    \/ Sleep2(t)
    \/ EmitReady(t)

\* The operating system runs every thread: a launch thread that can take a
\* step (spawn() returns, a sleep ends, the mutex is free) takes it, and a
\* drain loop goes on (kill and wait return) and releases the mutex.
SpecFair ==
    /\ Spec
    /\ \A t \in Threads : WF_vars(ThreadStep(t))
    /\ \A s \in Stoppers : WF_vars(StopKill(s))
    /\ \A s \in Stoppers : WF_vars(StopReturn(s))

\* Number of "backend-ready" events emitted by all launch threads.
TotalEmitted ==
    Cardinality(UNION {{<<t, i>> : i \in EventsAt(t, "emit")} : t \in Threads})

\* ------------------------------------------------------------------ C18
\* C18: every launch thread emits "backend-ready" exactly once, as its last
\* act, whatever its spawns returned and whatever Stop did: a finished
\* thread has emitted once, an unfinished one not yet, so the number of
\* emissions is the number of finished threads; and every call of
\* start_services leads to its thread finishing with its one emission.
C18_OneEmissionPerStart ==
    /\ [](\A t \in Threads : Emitted(t) = IF pc[t] = "done" THEN 1 ELSE 0)
    /\ [](TotalEmitted = Cardinality({t \in Threads : pc[t] = "done"}))
    /\ \A t \in Threads :
          Started(t) ~> (pc[t] = "done" /\ Emitted(t) = 1)

\* A launch thread in which a spawn failed and which a Stop overtook has
\* finished with its emission.
C18_Witness ==
    \E t \in Threads : \E s \in Stoppers :
        /\ SpawnFailed(t)
        /\ t \in inflight[s]
        /\ pc[t] = "done"
        /\ Emitted(t) = 1

\* ------------------------------------------------------------------ C19
\* C19: the two Python handles of a launch sequence are registered together:
\* the table holds both, next to each other, or neither; a drain that took
\* one took the other; and once no Stop is running both were killed and
\* waited for or neither was.
C19_PythonPairTogether ==
    \A t \in Threads :
        LET e == <<t, "embedding">>
            g == <<t, "gemini">>
        IN  /\ (e \in SeqToSet(processes)) = (g \in SeqToSet(processes))
            /\ \A i \in 1..Len(processes) :
                  processes[i] = e =>
                      (i < Len(processes) /\ processes[i + 1] = g)
            /\ \A s \in Stoppers :
                  e \in SeqToSet(draining[s]) => g \in SeqToSet(draining[s])
            /\ (e \in Tracked \cup reaped) = (g \in Tracked \cup reaped)
            /\ NoStopRunning => ((e \in reaped) = (g \in reaped))

\* A Stop that ran during a launch terminated both Python handles of it,
\* while the other launch's pair is in the table.
C19_Witness ==
    \E t, u \in Threads : \E s \in Stoppers :
        /\ t \in inflight[s]
        /\ {<<t, "embedding">>, <<t, "gemini">>} \subseteq reaped
        /\ {<<u, "embedding">>, <<u, "gemini">>} \subseteq SeqToSet(processes)
        /\ NoStopRunning
====
